---- MODULE Spec2Model ----
(***************************************************************************)
(* Model of the monitoring dashboard client: the axios wrapper with its    *)
(* two interceptors (src/src/services/api.ts), the Alerts and Login        *)
(* components (src/unnamed/part_000), the Locations and Readings pages     *)
(* and the logout action of the layout shell.                              *)
(*                                                                         *)
(* Numbers with decimals (pH, turbidity, temperature) are fixed-point      *)
(* integers in thousandths.  Instants are integers in milliseconds.        *)
(***************************************************************************)
EXTENDS Integers, Sequences, FiniteSets, TLC

\* ------------------------------------------------------------------ bounds
\* Longest response body (rows) the server sends to a single page.
MaxList == 4
\* Number of requests that can be in flight together.
MaxInflight == 2
\* Number of distinct readings of the wall clock (minus one).
MaxClock == 1
\* Number of distinct streams Math.random can deliver (minus one).
MaxSeed == 1

\* --------------------------------------------------------------- constants
HourMs == 3600000
MockReadingCount == 24
Unauthorized == 401

\* ------------------------------------------------------------ storage, DOM
\* localStorage.getItem of a missing key gives null.
Null == "<null>"
\* A field missing from a response body reads as undefined.
Undefined == "<undefined>"
\* A request without Authorization header.
NoHeader == "<no-header>"

\* localStorage.setItem(key, value) stores String(value).
ToStorageString(v) == IF v = Undefined THEN "undefined" ELSE v

\* JavaScript truthiness of what getItem returns: null and '' are falsy.
Truthy(tok) == tok # Null /\ tok # ""

\* Token fields a login response body can carry.
ServerTokens == {"tokA", "", Undefined}

StoredTokens == {Null} \cup {ToStorageString(t) : t \in ServerTokens}

\* --------------------------------------------------------- HTTP wrapper
\* api.interceptors.request.use: the Authorization header of a request
\* issued while `tok` is what localStorage holds.
RequestInterceptor_Always(tok) == "Bearer " \o tok
RequestInterceptor(tok) == IF Truthy(tok) THEN "Bearer " \o tok ELSE NoHeader

\* Transport errors: an HTTP error status, or no response at all.
NetworkError == [kind |-> "network", status |-> 0]
HttpError(s) == [kind |-> "http", status |-> s]
ErrorStatuses == {Unauthorized, 500}
Errors == {NetworkError} \cup {HttpError(s) : s \in ErrorStatuses}

\* error.response?.status === 401
Is401_Never(err) == FALSE
Is401_AnyHttp(err) == err.kind = "http"
Is401(err) == err.kind = "http" /\ err.status = Unauthorized

\* api.interceptors.response.use, error branch: what it leaves in storage,
\* in window.location, and what it hands to the caller.
ResponseInterceptorToken_Keep(err, tok) == tok
ResponseInterceptorToken(err, tok) == IF Is401(err) THEN Null ELSE tok
ResponseInterceptorHref(err, h) == IF Is401(err) THEN "/login" ELSE h
ResponseInterceptorReject_Wrapped(err) == [kind |-> "wrapped", status |-> err.status]
ResponseInterceptorReject(err) == err

\* --------------------------------------------------------------- routes
DataPages == {"alerts", "locations", "readings"}
Views == {"login", "reports"} \cup DataPages
Path(v) == "/" \o v
\* The accessor each data page calls.
AccessorOf(v) ==
  CASE v = "alerts" -> "getAlerts"
    [] v = "locations" -> "getLocations"
    [] v = "readings" -> "getReadings"
    [] v = "login" -> "login"
    [] OTHER -> "getReports"
PageOf(acc) ==
  CASE acc = "getAlerts" -> "alerts"
    [] acc = "getLocations" -> "locations"
    [] acc = "getReadings" -> "readings"
    [] acc = "login" -> "login"
    [] OTHER -> "reports"
Accessors == {"login", "getAlerts", "getLocations", "getReadings",
              "getReports", "downloadReport"}

\* ----------------------------------------------------------------- time
\* Readings of the wall clock (new Date(), Date.now()).
Clock == {(MockReadingCount + k) * HourMs : k \in 0..MaxClock}

\* Math.random(): call number k of stream `seed`, in thousandths, in [0, 1).
Random(seed, k) == (seed * 389 + k * 617 + 123) % 1000

\* --------------------------------------------------------------- helpers
RECURSIVE SeqsUpTo(_, _)
SeqsUpTo(S, n) ==
  IF n = 0 THEN {<<>>}
  ELSE LET shorter == SeqsUpTo(S, n - 1)
       IN shorter \cup {Append(s, x) : s \in {t \in shorter : Len(t) = n - 1}, x \in S}

Reverse(s) == [i \in 1..Len(s) |-> s[Len(s) + 1 - i]]

\* ------------------------------------------------------------ data model
\* interface Alert (api.ts): what a response body row of /api/alerts holds.
\* An unknown severity ("minor") is a value the server can send.
Severities == {"critical", "warning", "info"}
AlertKinds == {[type |-> "critical", severity |-> "critical"],
               [type |-> "warning", severity |-> "warning"],
               [type |-> "info", severity |-> "info"],
               [type |-> "info", severity |-> "minor"]}
ServerAlert(k) ==
  [id |-> "a", type |-> k.type, severity |-> k.severity, message |-> "m",
   location |-> "Riverside Village", timestamp |-> 0]

\* interface Location (api.ts); latitude and longitude in 1/10000 degree.
Statuses == {"active", "ACTIVE", "Warning", "inactive", "offline"}
ServerLocation(st) ==
  [id |-> "l", village |-> "v", district |-> "d", state |-> "s",
   latitude |-> 190000, longitude |-> 720000, status |-> st]

\* interface Reading (api.ts); ph, turbidity, temperature in thousandths.
\* A site can bear any name, the word "all" included.
ReadingSites == {"Riverside Village", "Mountain Springs", "all"}
Measurements == {<<6000, 4900, 21250>>, <<7000, 5000, 25000>>, <<8000, 85250, 30040>>}
ServerReading(site, m) ==
  [id |-> "r", location |-> site, ph |-> m[1], turbidity |-> m[2],
   temperature |-> m[3], timestamp |-> 0]

\* Response bodies: every array of at most MaxList rows, per accessor.
AllBodies(acc) ==
  CASE acc = "getAlerts" -> SeqsUpTo({ServerAlert(k) : k \in AlertKinds}, MaxList)
    [] acc = "getLocations" -> SeqsUpTo({ServerLocation(st) : st \in Statuses}, MaxList)
    [] acc = "getReadings" ->
         SeqsUpTo({ServerReading(site, m) : site \in ReadingSites, m \in Measurements},
                  MaxList)
    [] acc = "login" -> {<<[token |-> t]>> : t \in ServerTokens}
    [] OTHER -> {<<>>}

\* Response bodies: an empty array, one row, two rows, per accessor.
SampleBodies(acc) ==
  CASE acc = "getAlerts" ->
         {<<>>, <<ServerAlert([type |-> "info", severity |-> "info"])>>,
          <<ServerAlert([type |-> "critical", severity |-> "critical"]),
            ServerAlert([type |-> "info", severity |-> "minor"])>>}
    [] acc = "getLocations" ->
         {<<>>, <<ServerLocation("ACTIVE")>>,
          <<ServerLocation("active"), ServerLocation("offline")>>}
    [] acc = "getReadings" ->
         {<<>>, <<ServerReading("Riverside Village", <<7000, 5000, 25000>>)>>,
          <<ServerReading("Riverside Village", <<6000, 4900, 21250>>),
            ServerReading("Mountain Springs", <<8000, 85250, 30040>>)>>}
    [] acc = "login" -> {<<[token |-> t]>> : t \in ServerTokens}
    [] OTHER -> {<<>>}

\* --------------------------------------------------------- fallback data
\* Alerts.fetchAlerts, catch branch: the array handed to setAlerts.
MockAlerts(now) ==
  << [id |-> "1", type |-> "critical", severity |-> "critical",
      message |-> "Water pH level extremely low (4.2)",
      location |-> "Riverside Village, District A", timestamp |-> now],
     [id |-> "2", type |-> "warning", severity |-> "warning",
      message |-> "High turbidity detected (85 NTU)",
      location |-> "Mountain Springs, District B", timestamp |-> now - HourMs],
     [id |-> "3", type |-> "info", severity |-> "info",
      message |-> "System maintenance scheduled",
      location |-> "Central Processing Unit", timestamp |-> now - 2 * HourMs] >>

\* Locations.fetchLocations, catch branch: the array handed to setLocations.
MockLocations ==
  << [id |-> "1", village |-> "Riverside Village", district |-> "District A",
      state |-> "Maharashtra", latitude |-> 190760, longitude |-> 728777,
      status |-> "active"],
     [id |-> "2", village |-> "Mountain Springs", district |-> "District B",
      state |-> "Maharashtra", latitude |-> 191136, longitude |-> 728697,
      status |-> "warning"],
     [id |-> "3", village |-> "Valley View", district |-> "District C",
      state |-> "Maharashtra", latitude |-> 190896, longitude |-> 728656,
      status |-> "inactive"] >>

\* Readings.fetchReadings, catch branch: iteration i of the loop.  Each
\* iteration calls Math.random three times, in field order.
MockReading_SeededSite(now, seed, i) ==
  [id |-> "reading-" \o ToString(i),
   location |-> IF (i + seed) % 3 = 0 THEN "Riverside Village"
                ELSE IF (i + seed) % 3 = 1 THEN "Mountain Springs" ELSE "Valley View",
   ph |-> 6500 + Random(seed, 3 * i) * 2,
   turbidity |-> 20000 + Random(seed, 3 * i + 1) * 60,
   temperature |-> 22000 + Random(seed, 3 * i + 2) * 8,
   timestamp |-> now - i * HourMs]
MockReading(now, seed, i) ==
  [id |-> "reading-" \o ToString(i),
   location |-> IF i % 3 = 0 THEN "Riverside Village"
                ELSE IF i % 3 = 1 THEN "Mountain Springs" ELSE "Valley View",
   ph |-> 6500 + Random(seed, 3 * i) * 2,
   turbidity |-> 20000 + Random(seed, 3 * i + 1) * 60,
   temperature |-> 22000 + Random(seed, 3 * i + 2) * 8,
   timestamp |-> now - i * HourMs]

\* The array handed to setReadings, the loop's pushes reversed: tabulated for
\* every reading of the clock and every random stream.
MockReadingsTable ==
  [now \in Clock, seed \in 0..MaxSeed |->
     Reverse([j \in 1..MockReadingCount |-> MockReading(now, seed, j - 1)])]
MockReadings(now, seed) == MockReadingsTable[now, seed]

\* What the catch branch of page v's fetch stores.
Fallback_Empty(v, now, seed) == <<>>
Fallback(v, now, seed) ==
  CASE v = "alerts" -> MockAlerts(now)
    [] v = "locations" -> MockLocations
    [] OTHER -> MockReadings(now, seed)

\* The title of the notification the catch branch of page v raises.
FailureTitle_Silent(v) == "<no-toast>"
FailureTitle(v) ==
  CASE v = "alerts" -> "Error fetching alerts"
    [] v = "locations" -> "Error fetching locations"
    [] v = "readings" -> "Error fetching readings"
    [] OTHER -> "Login failed"

\* ---------------------------------------------------------------- state
VARIABLES
  token,             \* localStorage 'auth_token' (Null when the key is absent)
  href,              \* window.location, the path
  reloadPending,     \* an assignment to window.location.href awaits its page load
  view,              \* the page component mounted under the current route
  records,           \* alerts / locations / readings of the mounted data page
  loading,           \* `loading` of the mounted data page
  selectedLocation,  \* Readings: the value of the location Select
  isLoading,         \* Login: `isLoading`
  inflight,          \* requests sent and not yet settled: how many of each kind
  last               \* the step taken last: its inputs, the header and
                     \* notification it put out and, for a fetch that failed,
                     \* the records its page held before

vars == <<token, href, reloadPending, view, records, loading, selectedLocation,
          isLoading, inflight, last>>

NoToast == "<no-toast>"
NoError == [kind |-> "none", status |-> 0]
Step(op) ==
  [op |-> op, acc |-> "none", ok |-> FALSE, err |-> NoError, rejected |-> NoError,
   live |-> FALSE, body |-> <<>>, auth |-> NoHeader, toast |-> NoToast,
   before |-> <<>>]

\* A request in flight: the accessor that sent it, and whether the component
\* awaiting it is still mounted.  `inflight` counts the requests of each kind.
Requests == [acc : Accessors, live : BOOLEAN]
Req(acc, live) == [acc |-> acc, live |-> live]
NoneInFlight == [live |-> [a \in Accessors |-> 0], stale |-> [a \in Accessors |-> 0]]
Count(infl, r) == IF r.live THEN infl.live[r.acc] ELSE infl.stale[r.acc]

RECURSIVE Total(_, _)
Total(f, S) ==
  IF S = {} THEN 0
  ELSE LET a == CHOOSE x \in S : TRUE IN f[a] + Total(f, S \ {a})
InFlight(infl) == Total(infl.live, Accessors) + Total(infl.stale, Accessors)
CanSend(infl) == InFlight(infl) < MaxInflight

\* axios sends the request (the header it carries is kept in `last`).
Issue(infl, acc) == [infl EXCEPT !.live[acc] = @ + 1]
Settled(infl, r) ==
  IF r.live THEN [infl EXCEPT !.live[r.acc] = @ - 1]
  ELSE [infl EXCEPT !.stale[r.acc] = @ - 1]

\* Unmounting a component leaves its requests in flight.
Detach(infl) ==
  [live |-> [a \in Accessors |-> 0],
   stale |-> [a \in Accessors |-> infl.stale[a] + infl.live[a]]]

\* useState initial values, and the fetch each data page's useEffect starts.
Mount(v, infl) ==
  /\ view' = v
  /\ records' = <<>>
  /\ loading' = (v \in DataPages)
  /\ selectedLocation' = "all"
  /\ isLoading' = FALSE
  /\ inflight' = IF v \in DataPages THEN Issue(Detach(infl), AccessorOf(v))
                 ELSE Detach(infl)

\* react-router navigate(path) and <Link to>: the route changes and, unless
\* its page is the one mounted, that page is mounted anew.
NavigateTo(v, infl) ==
  /\ href' = Path(v)
  /\ IF v = view
     THEN /\ inflight' = infl
          /\ UNCHANGED <<view, records, loading, selectedLocation, isLoading>>
     ELSE Mount(v, infl)

\* The header of the request a step sends, if it sends one.
Sent(issues, tok) == IF issues THEN RequestInterceptor(tok) ELSE NoHeader

Init ==
  /\ token = Null
  /\ href = "/login"
  /\ reloadPending = FALSE
  /\ view = "login"
  /\ records = <<>>
  /\ loading = FALSE
  /\ selectedLocation = "all"
  /\ isLoading = FALSE
  /\ inflight = NoneInFlight
  /\ last = Step("init")

\* The user follows a sidebar link, or opens a route of the application.
Visit(v) ==
  /\ ~reloadPending
  /\ v # view
  /\ v \in DataPages => CanSend(inflight)
  /\ NavigateTo(v, inflight)
  /\ last' = [Step("visit") EXCEPT !.acc = AccessorOf(v),
                                   !.auth = Sent(v \in DataPages, token)]
  /\ UNCHANGED <<token, reloadPending>>

\* The Refresh button of a data page: disabled={loading}.
RefreshDisabled_Never(ld) == FALSE
RefreshDisabled(ld) == ld

\* The records of a data page once its fetch function has started: it calls
\* setLoading(true) and no other setter before the await.
RefreshRecords_Cleared(recs) == <<>>
RefreshRecords(recs) == recs

\* The Refresh button of a data page is clicked: fetchX, up to await.
Refresh ==
  /\ ~reloadPending
  /\ view \in DataPages
  /\ ~RefreshDisabled(loading)
  /\ CanSend(inflight)
  /\ loading' = TRUE
  /\ inflight' = Issue(inflight, AccessorOf(view))
  /\ last' = [Step("refresh") EXCEPT !.acc = AccessorOf(view),
                                     !.auth = Sent(TRUE, token)]
  /\ records' = RefreshRecords(records)
  /\ UNCHANGED <<token, href, reloadPending, view, selectedLocation, isLoading>>

\* Login: the submit button, disabled={isLoading}.
SubmitDisabled_Never(il) == FALSE
SubmitDisabled(il) == il

\* Login: the form's onSubmit, handleSubmit up to await.
Submit ==
  /\ ~reloadPending
  /\ view = "login"
  /\ ~SubmitDisabled(isLoading)
  /\ CanSend(inflight)
  /\ isLoading' = TRUE
  /\ inflight' = Issue(inflight, "login")
  /\ last' = [Step("submit") EXCEPT !.acc = "login", !.auth = Sent(TRUE, token)]
  /\ UNCHANGED <<token, href, reloadPending, view, records, loading,
                 selectedLocation>>

\* Readings: the options of the location Select.
locations(readings) == {readings[i].location : i \in DOMAIN readings}

\* Readings: onValueChange={setSelectedLocation}.
SelectLocation(l) ==
  /\ ~reloadPending
  /\ view = "readings"
  /\ l \in {"all"} \cup locations(records)
  /\ l # selectedLocation
  /\ selectedLocation' = l
  /\ last' = Step("select")
  /\ UNCHANGED <<token, href, reloadPending, view, records, loading, isLoading,
                 inflight>>

\* reportsAPI.getReports / downloadReport, called while the reports route is shown.
CallReports(acc) ==
  /\ ~reloadPending
  /\ view = "reports"
  /\ acc \in {"getReports", "downloadReport"}
  /\ CanSend(inflight)
  /\ inflight' = Issue(inflight, acc)
  /\ last' = [Step("call") EXCEPT !.acc = acc, !.auth = Sent(TRUE, token)]
  /\ UNCHANGED <<token, href, reloadPending, view, records, loading,
                 selectedLocation, isLoading>>

\* The `finally` of fetchAlerts / fetchLocations / fetchReadings / handleSubmit.
FinallyLoading_TryOnly(ok) == ~ok
FinallyLoading(ok) == FALSE

\* Login.handleSubmit: what localStorage.setItem('auth_token', token) stores.
LoginStoredToken_Keep(body, tok) == IF tok = Null THEN ToStorageString(body.token) ELSE tok
LoginStoredToken(body, tok) == ToStorageString(body.token)

\* Login.handleSubmit: the route it navigates to on success.
LoginTarget == "alerts"

\* The requests in flight once request r was rejected and the catch block of
\* the awaiting function has run: the block sends none.
CatchInflight_Retry(infl, r) == infl
CatchInflight(infl, r) == Settled(infl, r)

\* A request is rejected: the response interceptor's error branch, then the
\* catch and finally blocks of the awaiting function.
SettleError(r, err) ==
  LET page == PageOf(r.acc) IN
  /\ Count(inflight, r) > 0
  /\ err \in Errors
  /\ token' = ResponseInterceptorToken(err, token)
  /\ href' = ResponseInterceptorHref(err, href)
  /\ reloadPending' = (reloadPending \/ Is401(err))
  /\ inflight' = CatchInflight(inflight, r)
  /\ last' = [Step("settle") EXCEPT !.acc = r.acc, !.err = err, !.live = r.live,
                !.rejected = ResponseInterceptorReject(err),
                !.toast = IF page = "reports" THEN NoToast ELSE FailureTitle(page),
                !.before = IF r.live /\ page \in DataPages THEN records ELSE <<>>]
  /\ IF r.live /\ page \in DataPages
     THEN /\ \E now \in Clock, seed \in 0..MaxSeed : records' = Fallback(page, now, seed)
          /\ loading' = FinallyLoading(FALSE)
          /\ UNCHANGED isLoading
     ELSE IF r.live /\ page = "login"
     THEN /\ isLoading' = FinallyLoading(FALSE)
          /\ UNCHANGED <<records, loading>>
     ELSE UNCHANGED <<records, loading, isLoading>>
  /\ UNCHANGED <<view, selectedLocation>>

\* A request is fulfilled with a body drawn from `bodies`: the try block and
\* the finally block of the awaiting function.  A data page that is no longer
\* mounted drops the body, whatever it is.
SettleOk(r, bodies) ==
  LET page == PageOf(r.acc)
      rest == Settled(inflight, r)
  IN
  /\ Count(inflight, r) > 0
  /\ \E body \in IF r.live \/ page = "login" THEN bodies[r.acc] ELSE {<<>>} :
       /\ IF page = "login"
          THEN /\ token' = LoginStoredToken(body[1], token)
               /\ NavigateTo(LoginTarget, rest)
               /\ last' = [Step("settle") EXCEPT !.acc = r.acc, !.ok = TRUE,
                             !.live = r.live, !.body = body,
                             !.toast = "Login successful",
                             !.auth = Sent(view # LoginTarget, token')]
          ELSE /\ inflight' = rest
               /\ IF r.live /\ page \in DataPages
                  THEN /\ records' = body
                       /\ loading' = FinallyLoading(TRUE)
                  ELSE UNCHANGED <<records, loading>>
               /\ last' = [Step("settle") EXCEPT !.acc = r.acc, !.ok = TRUE,
                             !.live = r.live,
                             !.body = IF r.live THEN body ELSE <<>>]
               /\ UNCHANGED <<token, href, view, selectedLocation, isLoading>>
  /\ UNCHANGED reloadPending

\* DashboardLayout.handleLogout: what it leaves in storage.
HandleLogoutToken_Keep(tok) == tok
HandleLogoutToken(tok) == Null

\* DashboardLayout.handleLogout (the layout hosts every page but Login).
Logout ==
  /\ ~reloadPending
  /\ view # "login"
  /\ token' = HandleLogoutToken(token)
  /\ NavigateTo("login", inflight)
  /\ last' = Step("logout")
  /\ UNCHANGED reloadPending

\* authAPI.logout.
AuthLogout ==
  /\ ~reloadPending
  /\ ~reloadPending
  /\ token # Null
  /\ token' = Null
  /\ last' = Step("authLogout")
  /\ UNCHANGED <<href, reloadPending, view, records, loading, selectedLocation,
                 isLoading, inflight>>

\* The page load that an assignment to window.location.href starts: the
\* document is replaced, its requests are dropped, Login is mounted.
Reload ==
  /\ reloadPending
  /\ reloadPending' = FALSE
  /\ href' = "/login"
  /\ view' = "login"
  /\ records' = <<>>
  /\ loading' = FALSE
  /\ selectedLocation' = "all"
  /\ isLoading' = FALSE
  /\ inflight' = NoneInFlight
  /\ last' = Step("reload")
  /\ UNCHANGED token

Next ==
  \/ \E v \in Views : Visit(v)
  \/ Refresh
  \/ Submit
  \/ \E l \in {"all"} \cup ReadingSites \cup {"Valley View"} : SelectLocation(l)
  \/ \E acc \in {"getReports", "downloadReport"} : CallReports(acc)
  \/ \E r \in Requests, err \in Errors : SettleError(r, err)
  \/ \E r \in Requests : SettleOk(r, [acc \in Accessors |-> SampleBodies(acc)])
  \/ Logout
  \/ AuthLogout
  \/ Reload

Spec == Init /\ [][Next]_vars

\* The life of one data page, from its mount to the settling of the fetch its
\* useEffect started, with every response body of at most MaxList rows, and
\* the use of the location Select after it.
InitPage ==
  \E v \in DataPages :
    /\ token = "tokA"
    /\ href = Path(v)
    /\ reloadPending = FALSE
    /\ view = v
    /\ records = <<>>
    /\ loading = TRUE
    /\ selectedLocation = "all"
    /\ isLoading = FALSE
    /\ inflight = Issue(NoneInFlight, AccessorOf(v))
    /\ last = [Step("visit") EXCEPT !.acc = AccessorOf(v), !.auth = Sent(TRUE, "tokA")]

NextPage ==
  \/ \E r \in Requests : SettleOk(r, [acc \in Accessors |-> AllBodies(acc)])
  \/ \E r \in Requests, err \in Errors : SettleError(r, err)
  \/ \E l \in {"all"} \cup ReadingSites \cup {"Valley View"} : SelectLocation(l)

SpecPage == InitPage /\ [][NextPage]_vars

\* -------------------------------------------------------- derived values
\* Alerts: alerts.filter(a => a.severity === s).length
SeverityCount_ByType(alerts, s) == Len(SelectSeq(alerts, LAMBDA a : a.type = s))
SeverityCount(alerts, s) == Len(SelectSeq(alerts, LAMBDA a : a.severity = s))

\* Alerts.getSeverityColor
DefaultStyle == "bg-muted text-muted-foreground"
getSeverityColor(severity) ==
  CASE severity = "critical" -> "bg-status-critical text-white"
    [] severity = "warning" -> "bg-status-warning text-white"
    [] severity = "info" -> "bg-status-info text-white"
    [] OTHER -> DefaultStyle

\* Alerts: alerts.map(...), the rows of the list, each with its key and badge.
AlertRows(alerts) ==
  [i \in DOMAIN alerts |-> [key |-> alerts[i].id, badge |-> getSeverityColor(alerts[i].severity),
                            message |-> alerts[i].message]]

\* Readings: const filteredReadings = ...
filteredReadings(readings, sel) ==
  IF sel = "all" THEN readings
  ELSE SelectSeq(readings, LAMBDA reading : reading.location = sel)

\* Number.prototype.toFixed(d) of a value in thousandths, d = 1 or 2, as a
\* number in thousandths again (ties go up).
ToFixed(x, d) ==
  LET unit == IF d = 2 THEN 10 ELSE 100
  IN ((2 * x + unit) \div (2 * unit)) * unit

\* Readings: chartData (time as minutes since midnight).
chartData(filtered) ==
  [i \in DOMAIN filtered |->
     [time |-> (filtered[i].timestamp \div 60000) % 1440,
      pH |-> ToFixed(filtered[i].ph, 2),
      turbidity |-> ToFixed(filtered[i].turbidity, 1),
      temperature |-> ToFixed(filtered[i].temperature, 1)]]

\* filteredReadings.reduce((sum, r) => sum + r.<field>, 0)
RECURSIVE Reduce(_, _)
Reduce(rows, field) ==
  IF rows = <<>> THEN 0 ELSE rows[1][field] + Reduce(Tail(rows), field)

\* A quotient of two integers, kept exact.
Quot(a, b) == [num |-> a, den |-> b]

\* Readings: currentAverages (each a quotient, in thousandths).
currentAverages_Unguarded(filtered) ==
  [ph |-> Quot(Reduce(filtered, "ph"), Len(filtered)),
   turbidity |-> Quot(Reduce(filtered, "turbidity"), Len(filtered)),
   temperature |-> Quot(Reduce(filtered, "temperature"), Len(filtered))]
currentAverages(filtered) ==
  IF Len(filtered) > 0
  THEN [ph |-> Quot(Reduce(filtered, "ph"), Len(filtered)),
        turbidity |-> Quot(Reduce(filtered, "turbidity"), Len(filtered)),
        temperature |-> Quot(Reduce(filtered, "temperature"), Len(filtered))]
  ELSE [ph |-> Quot(0, 1), turbidity |-> Quot(0, 1), temperature |-> Quot(0, 1)]

\* Readings summary cards: currentAverages.<field>.toFixed(d), d = 1 or 2, of a
\* quotient in thousandths, as a number in thousandths (ties go up).
CardToFixed_Truncate(q, d) ==
  LET unit == IF d = 2 THEN 10 ELSE 100
  IN (q.num \div (unit * q.den)) * unit
CardToFixed(q, d) ==
  LET unit == IF d = 2 THEN 10 ELSE 100
  IN ((2 * q.num + unit * q.den) \div (2 * unit * q.den)) * unit

\* Readings summary cards: the three averages as they are displayed.
displayedAverages(avg) ==
  [ph |-> CardToFixed(avg.ph, 2),
   turbidity |-> CardToFixed(avg.turbidity, 1),
   temperature |-> CardToFixed(avg.temperature, 1)]

\* String.prototype.toLowerCase, on the status words.
ToLowerCase(st) ==
  CASE st = "ACTIVE" -> "active"
    [] st = "Warning" -> "warning"
    [] OTHER -> st

\* Locations.getStatusColor
getStatusColor(status) ==
  CASE ToLowerCase(status) = "active" -> "bg-status-success text-white"
    [] ToLowerCase(status) = "warning" -> "bg-status-warning text-white"
    [] ToLowerCase(status) = "inactive" -> "bg-muted text-muted-foreground"
    [] OTHER -> "bg-muted text-muted-foreground"

\* Locations: locations.filter(l => l.status === s).length
StatusCount(locs, s) == Len(SelectSeq(locs, LAMBDA l : l.status = s))

\* ================================================================ claims
\* What the last step was, read off `last` alone.
Failed == last.op = "settle" /\ ~last.ok
Got401 == Failed /\ last.err = [kind |-> "http", status |-> 401]
DataAccessors == {"getAlerts", "getLocations", "getReadings"}
\* The fetch of the mounted data page has just failed.
PageFetchFailed == Failed /\ last.live /\ last.acc \in DataAccessors
LoginSucceeded == last.op = "settle" /\ last.ok /\ last.acc = "login"
LoginFailed == Failed /\ last.acc = "login"

\* C1: whatever accessor sent the request and whatever the session held, once
\* a response with status 401 has been handled no 'auth_token' is stored and
\* the browser location is /login.
C1_On401TokenClearedAndLogin ==
  Got401 => token = Null /\ href = "/login"

\* C1 witness: a 401 answered a downloadReport call made from the reports route.
C1_Witness ==
  /\ Got401
  /\ last.acc = "downloadReport"
  /\ view = "reports"
  /\ token = Null
  /\ href = "/login"

\* The three fallback datasets, as the sources spell them out.
IsAlertsFallback(rows) ==
  /\ Len(rows) = 3
  /\ [i \in 1..3 |-> rows[i].id] = <<"1", "2", "3">>
  /\ [i \in 1..3 |-> rows[i].severity] = <<"critical", "warning", "info">>
  /\ [i \in 1..3 |-> rows[i].type] = <<"critical", "warning", "info">>
IsLocationsFallback(rows) ==
  /\ Len(rows) = 3
  /\ [i \in 1..3 |-> rows[i].id] = <<"1", "2", "3">>
  /\ [i \in 1..3 |-> rows[i].village] =
       <<"Riverside Village", "Mountain Springs", "Valley View">>
  /\ [i \in 1..3 |-> rows[i].status] = <<"active", "warning", "inactive">>
IsReadingsFallback(rows) ==
  /\ Len(rows) = 24
  /\ \A i \in 1..24 :
       LET n == 24 - i IN
       /\ rows[i].id = "reading-" \o ToString(n)
       /\ rows[i].location = <<"Riverside Village", "Mountain Springs", "Valley View">>[(n % 3) + 1]
       /\ rows[i].ph >= 6500 /\ rows[i].ph < 8500
       /\ rows[i].turbidity >= 20000 /\ rows[i].turbidity < 80000
       /\ rows[i].temperature >= 22000 /\ rows[i].temperature < 30000

\* C2: once a failed fetch of the mounted data page has settled, the page's
\* records are its fallback dataset (3 alerts, 3 locations, 24 readings), hence
\* not empty, and the page is not loading.
C2_FailedFetchLeavesFallback ==
  PageFetchFailed =>
    /\ records # <<>>
    /\ ~loading
    /\ last.acc = "getAlerts" => IsAlertsFallback(records)
    /\ last.acc = "getLocations" => IsLocationsFallback(records)
    /\ last.acc = "getReadings" => IsReadingsFallback(records)

\* C2 witness: the Readings fetch met a network failure and 24 readings are shown.
C2_Witness ==
  /\ PageFetchFailed
  /\ last.acc = "getReadings"
  /\ last.err.kind = "network"
  /\ view = "readings"
  /\ Len(records) = 24
  /\ ~loading

\* C3 as stated: after a successful login the stored token is the token of
\* the response body, it is not empty, and the route is /alerts.
C3_Original ==
  LoginSucceeded =>
    /\ last.body[1].token # Undefined => token = last.body[1].token
    /\ token # Null /\ token # ""
    /\ href = "/alerts"

\* C3 as amended: after a successful login the stored token is the string
\* conversion of the body's token field (a missing field is stored as
\* 'undefined'), so it is not empty unless the body's token is the empty
\* string; the route is /alerts and the Alerts page is mounted.
C3_LoginStoresBodyToken ==
  LoginSucceeded =>
    LET t == last.body[1].token IN
    /\ token # Null
    /\ t = Undefined => token = "undefined"
    /\ t # Undefined => token = t
    /\ t # "" => token # ""
    /\ href = "/alerts"
    /\ view = "alerts"

\* C3 witness: a login was answered with token 'tokA', now stored, at /alerts.
C3_Witness ==
  /\ LoginSucceeded
  /\ last.live
  /\ last.body[1].token = "tokA"
  /\ token = "tokA"
  /\ href = "/alerts"

\* C4 as stated: after a rejected login request the user is on the login
\* view, 'Login failed' is shown and no token is stored.
C4_Original ==
  (LoginFailed /\ last.live) =>
    /\ view = "login"
    /\ last.toast = "Login failed"
    /\ token = Null

\* C4 as amended: a rejected login request leaves the user on the login view
\* with the 'Login failed' notification and writes no token: the token stored
\* before is removed when the failure is a 401 response and is left as it was
\* otherwise (none is stored afterwards if none was stored before).
C4_FailedLoginWritesNoToken ==
  [][(LoginFailed /\ last.live)' =>
       /\ view' = "login"
       /\ href' = "/login"
       /\ last'.toast = "Login failed"
       /\ ~isLoading'
       /\ token' = IF Got401' THEN Null ELSE token]_vars

\* C4 witness: a login met status 500 while an earlier session's token was
\* stored; the token is still stored.
C4_Witness ==
  /\ LoginFailed /\ last.live
  /\ last.err = [kind |-> "http", status |-> 500]
  /\ view = "login"
  /\ last.toast = "Login failed"
  /\ token = "tokA"

\* The last step sent a request.
SentRequest ==
  \/ last.op \in {"refresh", "submit", "call"}
  \/ last.op = "visit" /\ last.acc \in DataAccessors

\* C5: a request leaves with 'Authorization: Bearer <token>', <token> being
\* what is stored as it is issued, when a (non-empty) token is stored, and
\* without Authorization header when no token is stored; no step puts out any
\* other header.
C5_BearerHeaderOfStoredToken ==
  /\ SentRequest /\ token # Null /\ token # "" => last.auth = "Bearer " \o token
  /\ SentRequest /\ token = Null => last.auth = NoHeader
  /\ last.auth # NoHeader => token # Null /\ last.auth = "Bearer " \o token

\* C5 witness: a refresh sent its request with the stored token 'tokA'.
C5_Witness ==
  /\ last.op = "refresh"
  /\ token = "tokA"
  /\ last.auth = "Bearer tokA"

\* C6: when a request fails with anything but a 401 response, the caller is
\* handed the very error of the transport, and the stored token and the
\* browser location are what they were.
C6_OtherErrorsPassThrough ==
  [][(Failed /\ ~Got401)' =>
       /\ last'.rejected = last'.err
       /\ last'.rejected \in {[kind |-> "network", status |-> 0],
                              [kind |-> "http", status |-> 500]}
       /\ token' = token
       /\ href' = href
       /\ reloadPending' = reloadPending]_vars

\* C6 witness: status 500 answered a fetch of the Locations page while a
\* token was stored; token and location are as before.
C6_Witness ==
  /\ Failed
  /\ last.acc = "getLocations"
  /\ last.err = [kind |-> "http", status |-> 500]
  /\ last.rejected = [kind |-> "http", status |-> 500]
  /\ token = "tokA"
  /\ href = "/locations"

\* C7: the one persisted value, the token under 'auth_token', is gone after the
\* logout action, which also leaves the route at /login, after authAPI.logout
\* and after any 401 response.
C7_TokenGoneAfterLogoutOr401 ==
  /\ last.op = "logout" => token = Null /\ href = "/login" /\ view = "login"
  /\ last.op = "authLogout" => token = Null
  /\ Got401 => token = Null

\* C7 witness: the user logged out while a fetch was in flight.
C7_Witness ==
  /\ last.op = "logout"
  /\ token = Null
  /\ href = "/login"
  /\ InFlight(inflight) > 0

\* C8: a mount and a refresh of a data page leave it loading with its fetch
\* in flight; a fetch of the mounted page that succeeds leaves the page's
\* records equal to the response body; and every fetch of the mounted page
\* that settles, fulfilled or rejected, leaves it not loading.
C8_LoadingThenReady ==
  /\ (last.op \in {"visit", "refresh"} /\ last.acc \in DataAccessors) =>
       /\ loading
       /\ view \in DataPages
       /\ last.acc = <<"getAlerts", "getLocations", "getReadings">>[
            CHOOSE k \in 1..3 : <<"alerts", "locations", "readings">>[k] = view]
       /\ inflight.live[last.acc] = 1
  /\ last.op = "visit" /\ last.acc \in DataAccessors => records = <<>>
  /\ (last.op = "settle" /\ last.live /\ last.acc \in DataAccessors) =>
       /\ ~loading
       /\ last.ok => records = last.body

\* C8 witness: the fetch of the mounted Locations page succeeded with two rows.
C8_Witness ==
  /\ last.op = "settle" /\ last.ok /\ last.live
  /\ last.acc = "getLocations"
  /\ Len(records) = 2
  /\ records = last.body
  /\ ~loading

\* The positions of the readings taken at site `sel`, and the k-th of them.
At(rows, sel) == {i \in DOMAIN rows : rows[i].location = sel}
Kth(I, k) == CHOOSE i \in I : Cardinality({j \in I : j < i}) = k - 1
RECURSIVE SumOver(_, _, _)
SumOver(rows, I, field) ==
  IF I = {} THEN 0
  ELSE LET i == CHOOSE x \in I : TRUE IN rows[i][field] + SumOver(rows, I \ {i}, field)

\* The displayed readings, the averages and the chart points are those of the
\* fetched readings at the positions I, in their order.
ShowsExactly(I) ==
  LET shown == filteredReadings(records, selectedLocation)
      n == Cardinality(I)
      avg == currentAverages(shown)
      chart == chartData(shown)
  IN
  /\ Len(shown) = n
  /\ \A k \in 1..n : shown[k] = records[Kth(I, k)]
  /\ n > 0 =>
       /\ avg.ph = [num |-> SumOver(records, I, "ph"), den |-> n]
       /\ avg.turbidity = [num |-> SumOver(records, I, "turbidity"), den |-> n]
       /\ avg.temperature = [num |-> SumOver(records, I, "temperature"), den |-> n]
  /\ Len(chart) = n
  /\ \A k \in 1..n :
       /\ chart[k].pH = ToFixed(records[Kth(I, k)].ph, 2)
       /\ chart[k].turbidity = ToFixed(records[Kth(I, k)].turbidity, 1)
       /\ chart[k].temperature = ToFixed(records[Kth(I, k)].temperature, 1)

\* C9: with the location of some fetched reading selected in the Readings
\* filter, the displayed readings are exactly the fetched readings of that
\* location, and the three averages and the chart points are computed from
\* those readings only, for every fetched dataset and every selectable value;
\* with 'all' selected every fetched reading is displayed.
C9_FilterByLocation ==
  view = "readings" =>
    /\ selectedLocation \in locations(records) =>
         ShowsExactly(At(records, selectedLocation))
    /\ selectedLocation = "all" =>
         filteredReadings(records, selectedLocation) = records

\* C9, short of the one colliding value: the statement holds for every
\* selected value other than 'all', and 'all' displays every fetched reading.
C9_FilterByLocationExceptAll ==
  view = "readings" =>
    /\ selectedLocation # "all" => ShowsExactly(At(records, selectedLocation))
    /\ selectedLocation = "all" => ShowsExactly(DOMAIN records)

\* C9 witness: a fetched reading bears the location 'all', another one does
\* not, the value 'all' is selected and both readings are displayed.
C9_Witness ==
  /\ view = "readings"
  /\ Len(records) = 2
  /\ records[1].location = "all"
  /\ records[2].location = "Riverside Village"
  /\ selectedLocation = "all"
  /\ Len(filteredReadings(records, selectedLocation)) = 2
  /\ At(records, selectedLocation) = {1}

\* C10: each of the Critical / Warning / Info summary counts is the number of
\* alerts in state with that severity (severities critical, warning, critical,
\* info give 2 / 1 / 1); an alert of another severity is kept in state as it
\* was received, has its row in the list with the default style, and is
\* counted in none of the three.
C10_SeveritySummaries ==
  view = "alerts" =>
    LET known == {i \in DOMAIN records : records[i].severity \in {"critical", "warning", "info"}}
        rows == AlertRows(records)
    IN
    /\ \A sev \in {"critical", "warning", "info"} :
         SeverityCount(records, sev) =
           Cardinality({i \in DOMAIN records : records[i].severity = sev})
    /\ [i \in DOMAIN records |-> records[i].severity] =
         <<"critical", "warning", "critical", "info">> =>
           /\ SeverityCount(records, "critical") = 2
           /\ SeverityCount(records, "warning") = 1
           /\ SeverityCount(records, "info") = 1
    /\ SeverityCount(records, "critical") + SeverityCount(records, "warning")
         + SeverityCount(records, "info") = Cardinality(known)
    /\ Len(rows) = Len(records)
    /\ \A i \in DOMAIN records \ known :
         /\ rows[i].key = records[i].id
         /\ rows[i].badge = "bg-muted text-muted-foreground"
    /\ (last.op = "settle" /\ last.ok /\ last.acc = "getAlerts") => records = last.body

\* C10 witness: the alerts fetched have severities critical, warning, critical
\* and one outside the three kinds.
C10_Witness ==
  /\ view = "alerts"
  /\ [i \in DOMAIN records |-> records[i].severity] =
       <<"critical", "warning", "critical", "minor">>
  /\ SeverityCount(records, "critical") = 2
  /\ SeverityCount(records, "info") = 0
  /\ AlertRows(records)[4].badge = DefaultStyle

\* An integer's distance from zero.
Abs(x) == IF x < 0 THEN -x ELSE x

\* d, in thousandths, is a multiple of `unit` thousandths that no other
\* multiple is nearer to than it is to sum / n.
NearestTo(d, sum, n, unit) ==
  /\ d % unit = 0
  /\ 2 * Abs(d * n - sum) <= unit * n

\* C11: with readings displayed on the Readings page, the displayed average pH
\* is the arithmetic mean of their pH values rounded to two decimals (pH values
\* 6.0, 7.0, 8.0 display 7.00), and the displayed average turbidity and
\* temperature are the means of their fields over the same readings rounded to
\* one decimal.
C11_DisplayedAveragesAreRoundedMeans ==
  view = "readings" =>
    LET I == IF selectedLocation = "all" THEN DOMAIN records
             ELSE At(records, selectedLocation)
        n == Cardinality(I)
        shown == displayedAverages(currentAverages(filteredReadings(records, selectedLocation)))
    IN
    n > 0 =>
      /\ NearestTo(shown.ph, SumOver(records, I, "ph"), n, 10)
      /\ NearestTo(shown.turbidity, SumOver(records, I, "turbidity"), n, 100)
      /\ NearestTo(shown.temperature, SumOver(records, I, "temperature"), n, 100)
      /\ [k \in 1..n |-> records[Kth(I, k)].ph] = <<6000, 7000, 8000>> => shown.ph = 7000

\* C11 witness: one location is selected, its three readings have pH 6.0, 7.0
\* and 8.0, a reading of another location is left out, and 7.00 is displayed.
C11_Witness ==
  /\ view = "readings"
  /\ Len(records) = 4
  /\ selectedLocation = "Riverside Village"
  /\ Len(filteredReadings(records, selectedLocation)) = 3
  /\ [k \in 1..3 |-> filteredReadings(records, selectedLocation)[k].ph] = <<6000, 7000, 8000>>
  /\ displayedAverages(currentAverages(filteredReadings(records, selectedLocation))).ph = 7000

\* The statuses the Locations page knows.
KnownStatuses == {"active", "warning", "inactive"}
\* A status word without regard to case.
Folded(st) ==
  IF st \in {"active", "ACTIVE", "Active"} THEN "active"
  ELSE IF st \in {"warning", "WARNING", "Warning"} THEN "warning"
  ELSE IF st \in {"inactive", "INACTIVE", "Inactive"} THEN "inactive"
  ELSE st
BadgeOf(st) ==
  IF st = "active" THEN "bg-status-success text-white"
  ELSE IF st = "warning" THEN "bg-status-warning text-white"
  ELSE "bg-muted text-muted-foreground"

\* C12: on the Locations page both the badge style of a location and the
\* Active / Warning / Inactive summary counts go by the status without regard
\* to case: 'ACTIVE' and 'active' get the same badge and are counted together.
C12_StatusCaseInsensitive ==
  view = "locations" =>
    /\ \A i \in DOMAIN records :
         getStatusColor(records[i].status) = BadgeOf(Folded(records[i].status))
    /\ \A s \in KnownStatuses :
         StatusCount(records, s) =
           Cardinality({i \in DOMAIN records : Folded(records[i].status) = s})

\* C12, as the code has it: the badge style goes by the status without regard
\* to case, and each summary count is the number of locations whose status is
\* the lower-case word itself.
C12_BadgeFoldsCountsDoNot ==
  view = "locations" =>
    /\ \A i \in DOMAIN records :
         getStatusColor(records[i].status) = BadgeOf(Folded(records[i].status))
    /\ \A s \in KnownStatuses :
         StatusCount(records, s) =
           Cardinality({i \in DOMAIN records : records[i].status = s})

\* C12 witness: the one location fetched has status 'ACTIVE'; its badge is the
\* one of an active location and the Active count is 0.
C12_Witness ==
  /\ view = "locations"
  /\ Len(records) = 1
  /\ records[1].status = "ACTIVE"
  /\ getStatusColor(records[1].status) = "bg-status-success text-white"
  /\ StatusCount(records, "active") = 0

\* The rows are the fallback dataset of the page that calls accessor `acc`.
IsFallbackOf(acc, rows) ==
  CASE acc = "getAlerts" -> IsAlertsFallback(rows)
    [] acc = "getLocations" -> IsLocationsFallback(rows)
    [] acc = "getReadings" -> IsReadingsFallback(rows)
    [] OTHER -> FALSE

\* A fetch of the mounted page has just failed, and the records the page held
\* before were those an earlier failed fetch had left.
FailedAgain == PageFetchFailed /\ IsFallbackOf(last.acc, last.before)

\* A row without its timestamp.
Untimed(row) == [row EXCEPT !.timestamp = 0]

FetchOf(v) ==
  IF v = "alerts" THEN "getAlerts"
  ELSE IF v = "locations" THEN "getLocations" ELSE "getReadings"

\* C14: the mounted data page has at most one fetch in flight, and has one
\* exactly while it is loading, from its mount on and across every refresh and
\* response; a response to the fetch of a data page instance no longer mounted
\* changes neither the records nor the loading flag of the mounted page.
C14_AtMostOneFetchInFlight ==
  [][/\ view' \in {"alerts", "locations", "readings"} =>
          /\ inflight'.live[FetchOf(view')] = IF loading' THEN 1 ELSE 0
          /\ \A a \in {"getAlerts", "getLocations", "getReadings"} \ {FetchOf(view')} :
               inflight'.live[a] = 0
          /\ last'.op = "visit" => loading'
     /\ (last'.op = "settle" /\ ~last'.live
           /\ last'.acc \in {"getAlerts", "getLocations", "getReadings"}) =>
          /\ records' = records
          /\ loading' = loading]_vars

\* C14 witness: the Alerts page was left and opened again; the response to the
\* first instance's fetch arrives while the second instance's fetch is still
\* in flight, and the page is still loading with no records.
C14_Witness ==
  /\ view = "alerts"
  /\ last.op = "settle" /\ ~last.live /\ last.acc = "getAlerts"
  /\ loading
  /\ records = <<>>
  /\ inflight.live["getAlerts"] = 1

\* The fetches of data pages in flight, those of unmounted pages included.
DataInFlight(infl) ==
  infl.live["getAlerts"] + infl.stale["getAlerts"]
  + infl.live["getLocations"] + infl.stale["getLocations"]
  + infl.live["getReadings"] + infl.stale["getReadings"]

\* C15: a step sends a data page request exactly when it mounts a data page
\* (one request) or is a refresh click (one request), so the requests a page
\* has sent number its mounts plus its refreshes; the settling of a failed
\* fetch sends none, and puts out one notification, the failure title of its
\* page.
C15_NoAutomaticRetry ==
  [][last'.op # "reload" =>
       LET settled == IF last'.op = "settle" /\ last'.acc \in DataAccessors THEN 1 ELSE 0
           sent == DataInFlight(inflight') - DataInFlight(inflight) + settled
           mounts == \/ last'.op = "visit" /\ last'.acc \in DataAccessors
                     \/ LoginSucceeded' /\ view # "alerts" /\ view' = "alerts"
           refreshes == last'.op = "refresh"
       IN
       /\ sent = IF mounts \/ refreshes THEN 1 ELSE 0
       /\ (Failed' /\ last'.acc \in DataAccessors) =>
            /\ sent = 0
            /\ last'.toast = IF last'.acc = "getAlerts" THEN "Error fetching alerts"
                             ELSE IF last'.acc = "getLocations" THEN "Error fetching locations"
                             ELSE "Error fetching readings"]_vars

\* C15 witness: the fetch of the Alerts page failed with status 500; no request
\* is in flight afterwards and the alerts failure notification was put out.
C15_Witness ==
  /\ PageFetchFailed
  /\ last.acc = "getAlerts"
  /\ last.err = [kind |-> "http", status |-> 500]
  /\ DataInFlight(inflight) = 0
  /\ last.toast = "Error fetching alerts"
  /\ ~loading

\* C16: once a submission of the mounted Login form has failed and settled,
\* isLoading is false, so the submit control is enabled again, and no request
\* of the form is in flight; while a submission of the form is in flight
\* isLoading is true, so the control is disabled, and the form has exactly that
\* one login request in flight, never two.
C16_LoginFormUsableAfterFailure ==
  /\ (LoginFailed /\ last.live) =>
       /\ view = "login"
       /\ ~isLoading
       /\ inflight.live["login"] = 0
       /\ ~reloadPending => ENABLED Submit
  /\ last.op = "submit" => isLoading /\ inflight.live["login"] = 1
  /\ view = "login" => inflight.live["login"] = IF isLoading THEN 1 ELSE 0
  /\ isLoading => ~ENABLED Submit

\* C16 witness: a login submission failed on a network error; the form is not
\* loading, no request of it is in flight and it can be submitted again.
C16_Witness ==
  /\ LoginFailed /\ last.live
  /\ last.err.kind = "network"
  /\ view = "login"
  /\ ~isLoading
  /\ inflight.live["login"] = 0
  /\ ENABLED Submit

\* C17: a 401 response reaches the caller as a rejection with the 401 error,
\* after the token is cleared and the redirect to /login is requested: on a
\* data page fetch the page's failure notification is put out and, the page
\* being mounted, its records are its fallback dataset and it is not loading;
\* on login the 'Login failed' notification is put out.
C17_401StillRejected ==
  Got401 =>
    /\ last.rejected = [kind |-> "http", status |-> 401]
    /\ token = Null
    /\ href = "/login"
    /\ reloadPending
    /\ last.acc = "getAlerts" => last.toast = "Error fetching alerts"
    /\ last.acc = "getLocations" => last.toast = "Error fetching locations"
    /\ last.acc = "getReadings" => last.toast = "Error fetching readings"
    /\ last.acc = "login" => last.toast = "Login failed"
    /\ (last.live /\ last.acc \in DataAccessors) =>
         /\ IsFallbackOf(last.acc, records)
         /\ ~loading
    /\ (last.live /\ last.acc = "login") => ~isLoading

\* C17 witness: a 401 answered the fetch of the mounted Locations page, which
\* had records from an earlier fetch; the three fallback locations replaced
\* them and the locations failure notification was put out.
C17_Witness ==
  /\ Got401
  /\ last.acc = "getLocations" /\ last.live
  /\ Len(last.before) = 2
  /\ IsLocationsFallback(records)
  /\ last.toast = "Error fetching locations"
  /\ token = Null
  /\ reloadPending

\* C18: a refresh click sets the loading flag and leaves the page's records,
\* the selected location and all else of the page as they were; on the Readings
\* page the arrival of the result of a fetch, fulfilled or rejected, leaves the
\* selected location as it was, whether or not the new records hold a reading
\* of that location.
C18_RefreshKeepsRecordsAndSelection ==
  [][/\ last'.op = "refresh" =>
          /\ ~loading /\ loading'
          /\ records' = records
          /\ selectedLocation' = selectedLocation
          /\ view' = view /\ href' = href /\ token' = token
          /\ isLoading' = isLoading
     /\ (last'.op = "settle" /\ last'.acc = "getReadings") =>
          selectedLocation' = selectedLocation]_vars

\* C18 witness: on the Readings page, with 'Mountain Springs' selected, a
\* refresh brought readings none of which is of that location; the selection
\* stands and nothing is displayed.
C18_Witness ==
  /\ view = "readings"
  /\ last.op = "settle" /\ last.ok /\ last.live
  /\ selectedLocation = "Mountain Springs"
  /\ records # <<>>
  /\ \A i \in DOMAIN records : records[i].location # "Mountain Springs"
  /\ filteredReadings(records, selectedLocation) = <<>>

\* C19: on the Readings page no average is a quotient by zero, and when no
\* reading is displayed (none fetched yet, an empty response, or a selected
\* location without a reading) the three averages are 0 and are displayed as
\* 0.00, 0.0 and 0.0.
C19_EmptyAveragesAreZero ==
  view = "readings" =>
    LET I == IF selectedLocation = "all" THEN DOMAIN records
             ELSE At(records, selectedLocation)
        avg == currentAverages(filteredReadings(records, selectedLocation))
    IN
    /\ avg.ph.den # 0 /\ avg.turbidity.den # 0 /\ avg.temperature.den # 0
    /\ I = {} =>
         /\ avg.ph.num = 0 /\ avg.turbidity.num = 0 /\ avg.temperature.num = 0
         /\ displayedAverages(avg) = [ph |-> 0, turbidity |-> 0, temperature |-> 0]

\* C19 witness: readings were fetched, none of them of the selected location;
\* the three averages displayed are 0.
C19_Witness ==
  /\ view = "readings"
  /\ ~loading
  /\ Len(records) = 1
  /\ selectedLocation = "Mountain Springs"
  /\ records[1].location = "Riverside Village"
  /\ displayedAverages(currentAverages(filteredReadings(records, selectedLocation)))
       = [ph |-> 0, turbidity |-> 0, temperature |-> 0]

\* C20: the stored token changes to a non-empty value only in the step of a
\* successful login; the settling of a data page fetch leaves the token as it
\* was, or removes it when the response is a 401; a logout and a 401 leave no
\* token; and from a state without token every step short of a successful
\* login leaves it without token and sends no Authorization header.
C20_TokenOnlyThroughLogin ==
  [][/\ (token' # token /\ token' # Null /\ token' # "") => LoginSucceeded'
     /\ (last'.op = "settle" /\ last'.acc \in DataAccessors) =>
          token' = IF Got401' THEN Null ELSE token
     /\ (last'.op \in {"logout", "authLogout"} \/ Got401') => token' = Null
     /\ (token = Null /\ ~LoginSucceeded') =>
          /\ token' = Null
          /\ last'.auth = "<no-header>"]_vars

\* C20 witness: no token is stored, the Login form is shown while the fetch of
\* a data page left earlier is still in flight, and the login request just
\* sent carries no Authorization header.
C20_Witness ==
  /\ last.op = "submit"
  /\ view = "login"
  /\ token = Null
  /\ last.auth = NoHeader
  /\ inflight.stale["getAlerts"] = 1
  /\ inflight.live["login"] = 1

====
